---- MODULE Spec2Model ----
(***************************************************************************)
(* Business-hours parsing and open/closed evaluation of                    *)
(* src/utils/csvParser.ts (convertTo12Hour .. formatHoursDisplay) together *)
(* with the OperatingHours component of src/components/RestaurantCard.tsx. *)
(*                                                                         *)
(* JavaScript strings are TLA+ strings; TLC evaluates Len, \o and SubSeq   *)
(* on them, so every split, trim, regular expression and comparison below  *)
(* works character by character as the source does.  A JavaScript number   *)
(* that may also be NaN, undefined or null (parseInt's result, a dayMap    *)
(* lookup) is a record [type, value]; an optional string (nextChange, the  *)
(* format parameter) is a sequence of length 0 (absent) or 1.              *)
(***************************************************************************)
EXTENDS Integers, Sequences, FiniteSets, TLC

\* ------------------------------------------------------------------------
\* String primitives of the JavaScript runtime
\* ------------------------------------------------------------------------

Num(n) == [type |-> "number", value |-> n]

NaN == [type |-> "NaN", value |-> 0]

Undefined == [type |-> "undefined", value |-> 0]

Null == [type |-> "null", value |-> 0]

\* ToNumber of the relational operators: undefined is NaN, null is 0
ToNumber(v) ==
  IF v = Undefined THEN NaN ELSE IF v = Null THEN Num(0) ELSE v

\* a <= b and a >= b on numbers: false as soon as one side is NaN
NumLe(a, b) ==
  LET x == ToNumber(a)
      y == ToNumber(b)
  IN x # NaN /\ y # NaN /\ x.value <= y.value

NumGe(a, b) ==
  LET x == ToNumber(a)
      y == ToNumber(b)
  IN x # NaN /\ y # NaN /\ x.value >= y.value

\* an optional string that is absent
Absent == << >>

Min(a, b) == IF a <= b THEN a ELSE b

\* s.substring(i-1, j): characters i..j (1-based, inclusive), clipped to s
Sub(s, i, j) ==
  LET lo == IF i < 1 THEN 1 ELSE i
      hi == Min(j, Len(s))
  IN IF lo > hi THEN "" ELSE SubSeq(s, lo, hi)

\* s[i-1], "" outside the string
CharAt(s, i) == IF 1 <= i /\ i <= Len(s) THEN SubSeq(s, i, i) ELSE ""

Digits == {"0", "1", "2", "3", "4", "5", "6", "7", "8", "9"}

\* \d of a JavaScript regular expression
IsDigit(c) == c \in Digits

\* \s of a JavaScript regular expression (the descriptors hold only blanks)
IsSpace(c) == c = " " \/ c = "\n"

DigitVal(c) ==
  CASE c = "0" -> 0 [] c = "1" -> 1 [] c = "2" -> 2 [] c = "3" -> 3
    [] c = "4" -> 4 [] c = "5" -> 5 [] c = "6" -> 6 [] c = "7" -> 7
    [] c = "8" -> 8 [] c = "9" -> 9

DigitChar(n) == CharAt("0123456789", n + 1)

UpperLetters == "ABCDEFGHIJKLMNOPQRSTUVWXYZ"

LowerLetters == "abcdefghijklmnopqrstuvwxyz"

LetterIndex(alphabet, c) ==
  IF \E i \in 1..26 : CharAt(alphabet, i) = c
  THEN CHOOSE i \in 1..26 : CharAt(alphabet, i) = c
  ELSE 0

UpperSet == {CharAt(UpperLetters, i) : i \in 1..26}

LowerSet == {CharAt(LowerLetters, i) : i \in 1..26}

LowerTable == [c \in UpperSet |-> CharAt(LowerLetters, LetterIndex(UpperLetters, c))]

UpperTable == [c \in LowerSet |-> CharAt(UpperLetters, LetterIndex(LowerLetters, c))]

LowerChar(c) == IF c \in UpperSet THEN LowerTable[c] ELSE c

UpperChar(c) == IF c \in LowerSet THEN UpperTable[c] ELSE c

\* s.toLowerCase(), character by character: the two halves of s, lower-cased
RECURSIVE toLowerCase(_)
toLowerCase(s) ==
  IF Len(s) <= 1 THEN LowerChar(s)
  ELSE LET half == Len(s) \div 2
       IN toLowerCase(SubSeq(s, 1, half)) \o toLowerCase(SubSeq(s, half + 1, Len(s)))

\* s.toUpperCase(), character by character
RECURSIVE toUpperCase(_)
toUpperCase(s) ==
  IF Len(s) <= 1 THEN UpperChar(s)
  ELSE LET half == Len(s) \div 2
       IN toUpperCase(SubSeq(s, 1, half)) \o toUpperCase(SubSeq(s, half + 1, Len(s)))

\* s.includes(sub)
includes(s, sub) ==
  \E i \in 1..(Len(s) - Len(sub) + 1) : SubSeq(s, i, i + Len(sub) - 1) = sub

RECURSIVE trimStart(_)
trimStart(s) ==
  IF s # "" /\ IsSpace(CharAt(s, 1)) THEN trimStart(Sub(s, 2, Len(s))) ELSE s

RECURSIVE trimEnd(_)
trimEnd(s) ==
  IF s # "" /\ IsSpace(CharAt(s, Len(s))) THEN trimEnd(Sub(s, 1, Len(s) - 1)) ELSE s

\* s.trim()
trim(s) == trimEnd(trimStart(s))

\* position of the first sep at or after i, 0 when there is none
RECURSIVE IndexFrom(_, _, _)
IndexFrom(s, sep, i) ==
  IF i > Len(s) THEN 0
  ELSE IF SubSeq(s, i, i) = sep THEN i
  ELSE IndexFrom(s, sep, i + 1)

\* s.split(sep) for a one-character separator: "" splits into <<"">>
RECURSIVE split(_, _)
split(s, sep) ==
  LET k == IndexFrom(s, sep, 1)
  IN IF k = 0 THEN <<s>>
     ELSE <<Sub(s, 1, k - 1)>> \o split(Sub(s, k + 1, Len(s)), sep)

\* parts.join(sep)
RECURSIVE join(_, _)
join(parts, sep) ==
  IF parts = << >> THEN ""
  ELSE IF Len(parts) = 1 THEN parts[1]
  ELSE parts[1] \o sep \o join(Tail(parts), sep)

\* the value of the run of digits that starts s
RECURSIVE DigitsValue(_, _)
DigitsValue(s, acc) ==
  IF s # "" /\ IsDigit(CharAt(s, 1))
  THEN DigitsValue(Sub(s, 2, Len(s)), acc * 10 + DigitVal(CharAt(s, 1)))
  ELSE acc

\* parseInt(s, 10): blanks skipped, an optional sign, then digits
parseInt(s) ==
  LET t    == trimStart(s)
      neg  == CharAt(t, 1) = "-"
      body == IF CharAt(t, 1) \in {"-", "+"} THEN Sub(t, 2, Len(t)) ELSE t
  IN IF IsDigit(CharAt(body, 1))
     THEN Num(IF neg THEN 0 - DigitsValue(body, 0) ELSE DigitsValue(body, 0))
     ELSE NaN

\* n.toString() of an integer
RECURSIVE NatToString(_)
NatToString(n) ==
  IF n < 10 THEN DigitChar(n) ELSE NatToString(n \div 10) \o DigitChar(n % 10)

IntToString(n) == IF n < 0 THEN "-" \o NatToString(0 - n) ELSE NatToString(n)

\* s.padStart(2, '0')
padStart2(s) == IF Len(s) < 2 THEN "0" \o s ELSE s

\* UTF-16 code unit of the characters that occur in hours strings
CharCode(c) ==
  IF IsDigit(c) THEN 48 + DigitVal(c)
  ELSE IF c \in UpperSet THEN 64 + LetterIndex(UpperLetters, c)
  ELSE IF c \in LowerSet THEN 96 + LetterIndex(LowerLetters, c)
  ELSE CASE c = " " -> 32 [] c = "&" -> 38 [] c = "-" -> 45
         [] c = ":" -> 58 [] c = ";" -> 59 [] OTHER -> 63

\* a < b for two JavaScript strings: code unit by code unit, a prefix is smaller
RECURSIVE StrLess(_, _)
StrLess(a, b) ==
  IF b = "" THEN FALSE
  ELSE IF a = "" THEN TRUE
  ELSE IF CharAt(a, 1) = CharAt(b, 1) THEN StrLess(Sub(a, 2, Len(a)), Sub(b, 2, Len(b)))
  ELSE CharCode(CharAt(a, 1)) < CharCode(CharAt(b, 1))

\* a <= b and a >= b for two JavaScript strings
StrLe(a, b) == a = b \/ StrLess(a, b)

StrGe(a, b) == a = b \/ StrLess(b, a)

\* ------------------------------------------------------------------------
\* Time tokens: convertTo12Hour, the AM/PM token pattern, parseTimeToMinutes
\* ------------------------------------------------------------------------

\* a % 12 of JavaScript: the sign of the result is the sign of a
Rem12(a) == IF a >= 0 THEN a % 12 ELSE 0 - ((0 - a) % 12)

\* the conversion with noon counted as AM (hour > 12 for hour >= 12)
convertTo12HourNoonAM(time) ==
  LET parts       == split(time, ":")
      hours       == parts[1]
      minutes     == IF Len(parts) >= 2 THEN parts[2] ELSE "undefined"
      hour        == parseInt(hours)
      ampm        == IF NumGe(hour, Num(13)) THEN "PM" ELSE "AM"
      displayHour == IF hour = NaN \/ Rem12(hour.value) = 0
                     THEN "12"
                     ELSE IntToString(Rem12(hour.value))
  IN displayHour \o ":" \o minutes \o " " \o ampm

\* `${displayHour}:${minutes} ${ampm}`: NaN >= 12 is false, NaN % 12 || 12 is 12,
\* and a missing second part of the split prints as "undefined"
convertTo12Hour(time) ==
  LET parts       == split(time, ":")
      hours       == parts[1]
      minutes     == IF Len(parts) >= 2 THEN parts[2] ELSE "undefined"
      hour        == parseInt(hours)
      ampm        == IF NumGe(hour, Num(12)) THEN "PM" ELSE "AM"
      displayHour == IF hour = NaN \/ Rem12(hour.value) = 0
                     THEN "12"
                     ELSE IntToString(Rem12(hour.value))
  IN displayHour \o ":" \o minutes \o " " \o ampm

RECURSIVE AllDigits(_)
AllDigits(s) ==
  s = "" \/ (IsDigit(CharAt(s, 1)) /\ AllDigits(Sub(s, 2, Len(s))))

\* first position at or after i that holds no blank
RECURSIVE SkipSpaces(_, _)
SkipSpaces(s, i) ==
  IF i <= Len(s) /\ IsSpace(CharAt(s, i)) THEN SkipSpaces(s, i + 1) ELSE i

\* The ways /(\d{1,2}):?(\d{2})?\s*(AM|PM)/i can split a match, in the order the
\* backtracking matcher tries them: two hour digits before one, the colon
\* before no colon, the minute group before no minute group.
TimeAlternatives ==
  << [h |-> 2, c |-> 1, m |-> 2], [h |-> 2, c |-> 1, m |-> 0],
     [h |-> 2, c |-> 0, m |-> 2], [h |-> 2, c |-> 0, m |-> 0],
     [h |-> 1, c |-> 1, m |-> 2], [h |-> 1, c |-> 1, m |-> 0],
     [h |-> 1, c |-> 0, m |-> 2], [h |-> 1, c |-> 0, m |-> 0] >>

\* whether alternative a matches at position i
AltMatches(s, i, a) ==
  LET hEnd   == i + a.h - 1
      cEnd   == hEnd + a.c
      mEnd   == cEnd + a.m
      pStart == SkipSpaces(s, mEnd + 1)
  IN /\ Len(Sub(s, i, hEnd)) = a.h
     /\ AllDigits(Sub(s, i, hEnd))
     /\ (a.c = 1 => CharAt(s, cEnd) = ":")
     /\ Len(Sub(s, cEnd + 1, mEnd)) = a.m
     /\ AllDigits(Sub(s, cEnd + 1, mEnd))
     /\ toUpperCase(Sub(s, pStart, pStart + 1)) \in {"AM", "PM"}

\* the groups of alternative a matched at position i, and where the match ends
AltGroups(s, i, a) ==
  LET hEnd   == i + a.h - 1
      cEnd   == hEnd + a.c
      mEnd   == cEnd + a.m
      pStart == SkipSpaces(s, mEnd + 1)
  IN [ok     |-> TRUE,
      start  |-> i,
      end    |-> pStart + 1,
      hour   |-> Sub(s, i, hEnd),
      minute |-> Sub(s, cEnd + 1, mEnd),
      period |-> Sub(s, pStart, pStart + 1)]

NoMatch == [ok |-> FALSE, start |-> 0, end |-> 0, hour |-> "", minute |-> "", period |-> ""]

\* the match that starts at position i, if any: the first alternative, from the
\* k-th on, that matches
RECURSIVE MatchTimeFrom(_, _, _)
MatchTimeFrom(s, i, k) ==
  IF k > Len(TimeAlternatives) THEN NoMatch
  ELSE IF AltMatches(s, i, TimeAlternatives[k]) THEN AltGroups(s, i, TimeAlternatives[k])
  ELSE MatchTimeFrom(s, i, k + 1)

\* the leftmost match that starts at or after position i (a match starts with \d)
RECURSIVE ExecTime(_, _)
ExecTime(s, i) ==
  IF i > Len(s) THEN NoMatch
  ELSE IF ~IsDigit(SubSeq(s, i, i)) THEN ExecTime(s, i + 1)
  ELSE LET m == MatchTimeFrom(s, i, 1)
       IN IF m.ok THEN m ELSE ExecTime(s, i + 1)

\* s.match(/(\d{1,2}):?(\d{2})?\s*(AM|PM)/gi): the matched substrings, left to
\* right and not overlapping; null (no match) is the empty sequence
RECURSIVE MatchAllFrom(_, _)
MatchAllFrom(s, i) ==
  LET m == ExecTime(s, i)
  IN IF m.ok THEN <<Sub(s, m.start, m.end)>> \o MatchAllFrom(s, m.end + 1) ELSE << >>

matchTimeTokens(s) == MatchAllFrom(s, 1)

parseTimeToMinutes(timeStr) ==
  LET match   == ExecTime(timeStr, 1)
      hours0  == parseInt(match.hour).value
      minutes == IF match.minute # "" THEN parseInt(match.minute).value ELSE 0
      period  == toUpperCase(match.period)
      hours   == IF period = "PM" /\ hours0 # 12 THEN hours0 + 12
                 ELSE IF period = "AM" /\ hours0 = 12 THEN 0
                 ELSE hours0
  IN IF ~match.ok THEN 0 ELSE hours * 60 + minutes

\* ------------------------------------------------------------------------
\* Format detection, display formatting, and the Simple evaluator
\* ------------------------------------------------------------------------

\* the pattern without its end anchor
simpleTimePatternUnanchored(s) ==
  \E h \in {1, 2} :
    /\ Len(s) >= h + 3
    /\ AllDigits(Sub(s, 1, h))
    /\ CharAt(s, h + 1) = ":"
    /\ AllDigits(Sub(s, h + 2, h + 3))

\* /^\d{1,2}:\d{2}$/.test(s)
simpleTimePattern(s) ==
  \E h \in {1, 2} :
    /\ Len(s) = h + 3
    /\ AllDigits(Sub(s, 1, h))
    /\ CharAt(s, h + 1) = ":"
    /\ AllDigits(Sub(s, h + 2, h + 3))

detectHoursFormat(opening, closing) ==
  IF simpleTimePattern(opening) /\ simpleTimePattern(closing)
  THEN "simple"
  ELSE "complex"

formatSimpleHours(opening, closing) ==
  convertTo12Hour(opening) \o " - " \o convertTo12Hour(closing)

\* the display with the format detected only when an override is given
formatHoursDisplayDetectsOnOverride(opening, closing, format) ==
  LET detectedFormat == IF format # Absent
                        THEN detectHoursFormat(opening, closing)
                        ELSE "complex"
  IN IF detectedFormat = "simple"
     THEN formatSimpleHours(opening, closing)
     ELSE opening

\* format || detectHoursFormat(...), then the two branches
formatHoursDisplay(opening, closing, format) ==
  LET detectedFormat == IF format # Absent
                        THEN format[1]
                        ELSE detectHoursFormat(opening, closing)
  IN IF detectedFormat = "simple"
     THEN formatSimpleHours(opening, closing)
     ELSE opening

\* the zero-padded HH:MM text of the wall clock, minutes since midnight
CurrentTimeText(minutes) ==
  padStart2(IntToString(minutes \div 60)) \o ":" \o padStart2(IntToString(minutes % 60))

\* currentTime >= opening && currentTime <= closing, on strings
SimpleIsOpen(currentTime, opening, closing) ==
  StrGe(currentTime, opening) /\ StrLe(currentTime, closing)

\* nextChange without the "Opens at" branch
SimpleNextChangeNoOpens(currentTime, opening, closing) ==
  IF SimpleIsOpen(currentTime, opening, closing)
  THEN <<"Closes at " \o convertTo12Hour(closing)>>
  ELSE Absent

SimpleNextChange(currentTime, opening, closing) ==
  IF SimpleIsOpen(currentTime, opening, closing)
  THEN <<"Closes at " \o convertTo12Hour(closing)>>
  ELSE IF StrLess(currentTime, opening)
  THEN <<"Opens at " \o convertTo12Hour(opening)>>
  ELSE Absent

parseSimpleHours(opening, closing, nowMinutes) ==
  LET currentTime == CurrentTimeText(nowMinutes)
      isOpen      == SimpleIsOpen(currentTime, opening, closing)
  IN [isOpen      |-> isOpen,
      statusText  |-> IF isOpen THEN "Open Now" ELSE "Closed",
      statusColor |-> IF isOpen THEN "text-green-600" ELSE "text-red-600",
      nextChange  |-> SimpleNextChange(currentTime, opening, closing)]

\* ------------------------------------------------------------------------
\* The Complex evaluator
\* ------------------------------------------------------------------------

\* dayMap[name]: a number, or undefined for a name that is no key
dayMap(name) ==
  CASE name \in {"sun", "sunday"}    -> Num(0)
    [] name \in {"mon", "monday"}    -> Num(1)
    [] name \in {"tue", "tuesday"}   -> Num(2)
    [] name \in {"wed", "wednesday"} -> Num(3)
    [] name \in {"thu", "thursday"}  -> Num(4)
    [] name \in {"fri", "friday"}    -> Num(5)
    [] name \in {"sat", "saturday"}  -> Num(6)
    [] OTHER                         -> Undefined

\* the day range without the week wrap
isDayInRangeNoWrap(day, start, end) ==
  NumGe(day, start) /\ NumLe(day, end)

isDayInRange(day, start, end) ==
  IF NumLe(start, end)
  THEN NumGe(day, start) /\ NumLe(day, end)
  ELSE NumGe(day, start) \/ NumLe(day, end)

\* startDay and endDay of a lower-cased day part
ParseDayRange(dayPart) ==
  IF includes(dayPart, "-")
  THEN LET names == split(dayPart, "-")
       IN [startDay |-> dayMap(trim(names[1])), endDay |-> dayMap(trim(names[2]))]
  ELSE [startDay |-> dayMap(dayPart), endDay |-> dayMap(dayPart)]

\* startDay !== null && endDay !== null && isDayInRange(currentDay, ...)
DayMatches(dayPart, currentDay) ==
  LET r == ParseDayRange(dayPart)
  IN /\ r.startDay # Null
     /\ r.endDay # Null
     /\ isDayInRange(Num(currentDay), r.startDay, r.endDay)

\* the test with a close before the open taken as a close on the next day
WithinIntervalOvernight(currentTime, openTime, closeTime) ==
  IF closeTime < openTime
  THEN currentTime >= openTime \/ currentTime <= closeTime
  ELSE currentTime >= openTime /\ currentTime <= closeTime

\* currentTime >= openTime && currentTime <= closeTime, on minutes
WithinInterval(currentTime, openTime, closeTime) ==
  currentTime >= openTime /\ currentTime <= closeTime

ClosedStatus ==
  [isOpen |-> FALSE, statusText |-> "Closed", statusColor |-> "text-red-600",
   nextChange |-> Absent]

\* the open status with the colour of the closed one
OpenStatusRed(closeStr) ==
  [isOpen |-> TRUE, statusText |-> "Open Now", statusColor |-> "text-red-600",
   nextChange |-> <<"Closes at " \o closeStr>>]

OpenStatus(closeStr) ==
  [isOpen |-> TRUE, statusText |-> "Open Now", statusColor |-> "text-green-600",
   nextChange |-> <<"Closes at " \o closeStr>>]

\* the "Daily" result with no nextChange when closed
DailyStatusNoOpensAt(openStr, closeStr, currentTime) ==
  LET isOpen == WithinInterval(currentTime, parseTimeToMinutes(openStr),
                               parseTimeToMinutes(closeStr))
  IN [isOpen      |-> isOpen,
      statusText  |-> IF isOpen THEN "Open Now" ELSE "Closed",
      statusColor |-> IF isOpen THEN "text-green-600" ELSE "text-red-600",
      nextChange  |-> IF isOpen THEN <<"Closes at " \o closeStr>> ELSE Absent]

\* the "Daily" result, from the first two tokens of the whole string
DailyStatus(openStr, closeStr, currentTime) ==
  LET isOpen == WithinInterval(currentTime, parseTimeToMinutes(openStr),
                               parseTimeToMinutes(closeStr))
  IN [isOpen      |-> isOpen,
      statusText  |-> IF isOpen THEN "Open Now" ELSE "Closed",
      statusColor |-> IF isOpen THEN "text-green-600" ELSE "text-red-600",
      nextChange  |-> IF isOpen THEN <<"Closes at " \o closeStr>>
                                ELSE <<"Opens at " \o openStr>>]

\* the loop over the '&'-separated ranges of one clause: the status returned from
\* inside the loop as a one-element sequence, << >> when the loop runs out
RECURSIVE TimeRangesLoop(_, _)
TimeRangesLoop(timeRanges, currentTime) ==
  IF timeRanges = << >> THEN << >>
  ELSE LET timeMatch == matchTimeTokens(Head(timeRanges))
       IN IF /\ Len(timeMatch) >= 2
             /\ WithinInterval(currentTime, parseTimeToMinutes(timeMatch[1]),
                               parseTimeToMinutes(timeMatch[2]))
          THEN <<OpenStatus(timeMatch[2])>>
          ELSE TimeRangesLoop(Tail(timeRanges), currentTime)

\* s.split('&').map(t => t.trim())
RECURSIVE TrimAll(_)
TrimAll(parts) ==
  IF parts = << >> THEN << >> ELSE <<trim(Head(parts))>> \o TrimAll(Tail(parts))

\* one iteration of the loop over the clauses
ScheduleStatus(schedule, currentDay, currentTime) ==
  LET parts    == split(schedule, ":")
      dayPart  == toLowerCase(trim(parts[1]))
      timePart == trim(join(Tail(parts), ":"))
  IN IF Len(parts) < 2 THEN << >>
     ELSE IF DayMatches(dayPart, currentDay)
     THEN TimeRangesLoop(TrimAll(split(timePart, "&")), currentTime)
     ELSE << >>

\* the loop over the ';'-separated clauses, then the closed fallthrough
RECURSIVE SchedulesLoop(_, _, _)
SchedulesLoop(schedules, currentDay, currentTime) ==
  IF schedules = << >> THEN ClosedStatus
  ELSE LET r == ScheduleStatus(Head(schedules), currentDay, currentTime)
       IN IF r # << >> THEN r[1]
          ELSE SchedulesLoop(Tail(schedules), currentDay, currentTime)

\* the "daily:" test on the string as written, not lower-cased
TakesDailyBranchCaseSensitive(hoursString) ==
  includes(hoursString, "daily:") /\ Len(matchTimeTokens(hoursString)) >= 2

\* whether the "Daily" branch returns
TakesDailyBranch(hoursString) ==
  includes(toLowerCase(hoursString), "daily:") /\ Len(matchTimeTokens(hoursString)) >= 2

parseComplexHours(hoursString, currentDay, currentTime) ==
  IF TakesDailyBranch(hoursString)
  THEN LET timeMatch == matchTimeTokens(hoursString)
       IN DailyStatus(timeMatch[1], timeMatch[2], currentTime)
  ELSE SchedulesLoop(TrimAll(split(hoursString, ";")), currentDay, currentTime)

\* the evaluator getRestaurantStatus dispatches to
Dispatch(openingHours, closingHours) ==
  IF detectHoursFormat(openingHours, closingHours) = "simple" THEN "simple" ELSE "complex"

getRestaurantStatus(openingHours, closingHours, currentDay, currentTime) ==
  IF Dispatch(openingHours, closingHours) = "simple"
  THEN parseSimpleHours(openingHours, closingHours, currentTime)
  ELSE parseComplexHours(openingHours, currentDay, currentTime)

\* ------------------------------------------------------------------------
\* The CSV conversion: convertPriceRange
\* ------------------------------------------------------------------------

\* the position after the digits that start at position i (i when none does)
RECURSIVE DigitsEnd(_, _)
DigitsEnd(s, i) ==
  IF i <= Len(s) /\ IsDigit(SubSeq(s, i, i)) THEN DigitsEnd(s, i + 1) ELSE i

\* /\$(\d+)-(\d+)/ at position i: each \d+ takes every digit there is (giving
\* digits back cannot help, what follows them would be a digit)
PriceMatchAt(s, i) ==
  LET minEnd == DigitsEnd(s, i + 1)
      maxEnd == DigitsEnd(s, minEnd + 1)
  IN [ok  |-> /\ CharAt(s, i) = "$"
              /\ minEnd > i + 1
              /\ CharAt(s, minEnd) = "-"
              /\ maxEnd > minEnd + 1,
      min |-> Sub(s, i + 1, minEnd - 1),
      max |-> Sub(s, minEnd + 1, maxEnd - 1)]

\* priceRange.match(/\$(\d+)-(\d+)/): the leftmost match at or after position
\* i, ok false when there is none
RECURSIVE ExecPrice(_, _)
ExecPrice(s, i) ==
  IF i > Len(s) THEN [ok |-> FALSE, min |-> "", max |-> ""]
  ELSE IF PriceMatchAt(s, i).ok THEN PriceMatchAt(s, i)
  ELSE ExecPrice(s, i + 1)

\* the buckets with an average of exactly 10 counted as '$'
convertPriceRangeTenIsCheap(priceRange) ==
  LET match    == ExecPrice(priceRange, 1)
      minPrice == parseInt(match.min).value
      maxPrice == parseInt(match.max).value
      sum      == minPrice + maxPrice
  IN IF ~match.ok THEN "$$"
     ELSE IF sum <= 2 * 10 THEN "$"
     ELSE IF sum <= 2 * 20 THEN "$$"
     ELSE IF sum <= 2 * 30 THEN "$$$"
     ELSE "$$$$"

\* avgPrice = (minPrice + maxPrice) / 2 compared with 10, 20 and 30: the sum
\* compared with twice as much
convertPriceRange(priceRange) ==
  LET match    == ExecPrice(priceRange, 1)
      minPrice == parseInt(match.min).value
      maxPrice == parseInt(match.max).value
      sum      == minPrice + maxPrice
  IN IF ~match.ok THEN "$$"
     ELSE IF sum < 2 * 10 THEN "$"
     ELSE IF sum <= 2 * 20 THEN "$$"
     ELSE IF sum <= 2 * 30 THEN "$$$"
     ELSE "$$$$"

\* ------------------------------------------------------------------------
\* The CSV conversion: mockGeocodeHouston
\* ------------------------------------------------------------------------

\* locationMap as written, key by key; a coordinate is in ten-thousandths of a
\* degree
locationMap ==
  <<
     [key |-> "6815 hillcroft", coords |-> [latitude |-> 296995, longitude |-> -954950]],
     [key |-> "7300 hillcroft", coords |-> [latitude |-> 296860, longitude |-> -954948]],
     [key |-> "5827 hillcroft", coords |-> [latitude |-> 297095, longitude |-> -954952]],
     [key |-> "3601 hillcroft", coords |-> [latitude |-> 297350, longitude |-> -954951]],
     [key |-> "hillcroft", coords |-> [latitude |-> 297223, longitude |-> -954954]],
     [key |-> "12427 bissonnet", coords |-> [latitude |-> 297019, longitude |-> -955683]],
     [key |-> "bissonnet", coords |-> [latitude |-> 297019, longitude |-> -955683]],
     [key |-> "2800 kirby", coords |-> [latitude |-> 297346, longitude |-> -954189]],
     [key |-> "3910 kirby", coords |-> [latitude |-> 297300, longitude |-> -954185]],
     [key |-> "kirby", coords |-> [latitude |-> 297346, longitude |-> -954189]],
     [key |-> "westheimer", coords |-> [latitude |-> 297390, longitude |-> -954563]],
     [key |-> "516 westheimer", coords |-> [latitude |-> 297485, longitude |-> -953950]],
     [key |-> "1834 westheimer", coords |-> [latitude |-> 297431, longitude |-> -954220]],
     [key |-> "3334 westheimer", coords |-> [latitude |-> 297402, longitude |-> -954350]],
     [key |-> "8888 westheimer", coords |-> [latitude |-> 297380, longitude |-> -955600]],
     [key |-> "richmond", coords |-> [latitude |-> 297355, longitude |-> -955021]],
     [key |-> "4410 richmond", coords |-> [latitude |-> 297355, longitude |-> -954621]],
     [key |-> "fannin", coords |-> [latitude |-> 297520, longitude |-> -953698]],
     [key |-> "1201 fannin", coords |-> [latitude |-> 297520, longitude |-> -953698]],
     [key |-> "bellaire", coords |-> [latitude |-> 297058, longitude |-> -954774]],
     [key |-> "9889 bellaire", coords |-> [latitude |-> 297058, longitude |-> -954774]],
     [key |-> "77081", coords |-> [latitude |-> 297010, longitude |-> -955200]],
     [key |-> "77099", coords |-> [latitude |-> 297019, longitude |-> -955683]],
     [key |-> "77098", coords |-> [latitude |-> 297431, longitude |-> -954220]],
     [key |-> "77057", coords |-> [latitude |-> 297350, longitude |-> -954951]],
     [key |-> "77006", coords |-> [latitude |-> 297485, longitude |-> -953950]],
     [key |-> "77027", coords |-> [latitude |-> 297402, longitude |-> -954350]],
     [key |-> "77002", coords |-> [latitude |-> 297520, longitude |-> -953698]],
     [key |-> "77036", coords |-> [latitude |-> 297058, longitude |-> -954774]],
     [key |-> "77063", coords |-> [latitude |-> 297380, longitude |-> -955600]],
     [key |-> "77074", coords |-> [latitude |-> 296850, longitude |-> -955300]]
  >>

\* Houston city center
DefaultCoords == [latitude |-> 297604, longitude |-> -953698]

\* a property key that is an array index: the decimal text of an integer below
\* 2^32 - 1, with no leading zero (the keys of up to nine digits; no key of the
\* table is longer)
IsArrayIndex(key) ==
  /\ key # ""
  /\ AllDigits(key)
  /\ (Len(key) = 1 \/ CharAt(key, 1) # "0")
  /\ Len(key) <= 9

\* the entries whose key is an array index (isIndex TRUE) or is none (FALSE),
\* in their order
RECURSIVE SelectEntries(_, _)
SelectEntries(entries, isIndex) ==
  IF entries = << >> THEN << >>
  ELSE (IF IsArrayIndex(Head(entries).key) = isIndex THEN <<Head(entries)>> ELSE << >>)
         \o SelectEntries(Tail(entries), isIndex)

\* entries with array-index keys, by ascending index
RECURSIVE AscendingIndex(_)
AscendingIndex(entries) ==
  IF entries = << >> THEN << >>
  ELSE LET least == CHOOSE i \in DOMAIN entries :
                      \A j \in DOMAIN entries :
                        DigitsValue(entries[i].key, 0) <= DigitsValue(entries[j].key, 0)
           rest  == [k \in 1..(Len(entries) - 1) |->
                       IF k < least THEN entries[k] ELSE entries[k + 1]]
       IN <<entries[least]>> \o AscendingIndex(rest)

\* Object.entries(map): the own properties in the order of the language, the
\* array-index keys first by ascending index, then the other keys as created
ObjectEntries(map) ==
  AscendingIndex(SelectEntries(map, TRUE)) \o SelectEntries(map, FALSE)

\* the entries of locationMap as the loop visits them
LocationEntries == ObjectEntries(locationMap)

\* the loop over the entries: the coordinates of the first key the address
\* includes, the default after the last
RECURSIVE FirstIncluded(_, _, _)
FirstIncluded(entries, k, addressLower) ==
  IF k > Len(entries) THEN DefaultCoords
  ELSE IF includes(addressLower, entries[k].key) THEN entries[k].coords
  ELSE FirstIncluded(entries, k + 1, addressLower)

\* mockGeocodeHouston: the address lower-cased, then the loop
mockGeocodeHouston(address) ==
  FirstIncluded(LocationEntries, 1, toLowerCase(address))

\* ------------------------------------------------------------------------
\* The CSV conversion: parseCSVLine, convertCSVRow, parseCSV
\* ------------------------------------------------------------------------

\* the character loop of parseCSVLine from position i on: a quote toggles
\* inQuotes, a comma outside quotes ends the cell, anything else is kept; the
\* characters up to the next quote or comma are taken in one step
RECURSIVE CSVLineLoop(_, _, _, _, _)
CSVLineLoop(line, i, cells, current, inQuotes) ==
  LET marks == {k \in i..Len(line) : SubSeq(line, k, k) \in {"\"", ","}}
  IN IF marks = {} THEN Append(cells, trim(current \o Sub(line, i, Len(line))))
     ELSE LET m == CHOOSE k \in marks : \A other \in marks : k <= other
              char == SubSeq(line, m, m)
              kept == current \o Sub(line, i, m - 1)
          IN IF char = "\""
             THEN CSVLineLoop(line, m + 1, cells, kept, ~inQuotes)
             ELSE IF ~inQuotes
             THEN CSVLineLoop(line, m + 1, Append(cells, trim(kept)), "", inQuotes)
             ELSE CSVLineLoop(line, m + 1, cells, kept \o char, inQuotes)

parseCSVLine(line) == CSVLineLoop(line, 1, << >>, "", FALSE)

\* the row object: each header names the value of its column, a header that
\* comes twice names the value of its last column
RowOf(headers, values) ==
  [header \in {headers[k] : k \in DOMAIN headers} |->
     LET columns == {k \in DOMAIN headers : headers[k] = header}
     IN values[CHOOSE k \in columns : \A j \in columns : j <= k]]

\* the record with the stored closing string a copy of the hours cell
convertCSVRowClosingCopied(row, index) ==
  LET coords == mockGeocodeHouston(row["Address"])
  IN [id |-> "houston-" \o NatToString(index),
      address |-> row["Address"],
      priceRange |-> convertPriceRange(row["Price Range"]),
      openingHours |-> row["Operating Hours"],
      closingHours |-> row["Operating Hours"],
      latitude |-> coords.latitude,
      longitude |-> coords.longitude,
      hoursFormat |-> "complex"]

\* convertCSVRow: the fields of the Restaurant that the hours, the price and
\* the address of the row decide, and the id
convertCSVRow(row, index) ==
  LET coords == mockGeocodeHouston(row["Address"])
  IN [id |-> "houston-" \o NatToString(index),
      address |-> row["Address"],
      priceRange |-> convertPriceRange(row["Price Range"]),
      openingHours |-> row["Operating Hours"],
      closingHours |-> "",
      latitude |-> coords.latitude,
      longitude |-> coords.longitude,
      hoursFormat |-> "complex"]

\* the loop over the lines after the header, i counted as the code counts it
\* (the header is line 0): a line with as many cells as the header gives a
\* record, any other line is passed over
RECURSIVE CSVRowsLoop(_, _, _)
CSVRowsLoop(lines, headers, i) ==
  IF i >= Len(lines) THEN << >>
  ELSE LET values == parseCSVLine(lines[i + 1])
       IN (IF Len(values) = Len(headers)
           THEN <<convertCSVRow(RowOf(headers, values), i)>>
           ELSE << >>)
          \o CSVRowsLoop(lines, headers, i + 1)

parseCSV(content) ==
  LET lines == split(trim(content), "\n")
  IN IF Len(lines) < 2 THEN << >>
     ELSE CSVRowsLoop(lines, parseCSVLine(lines[1]), 1)

\* ------------------------------------------------------------------------
\* The restaurant record on display and the OperatingHours component
\* ------------------------------------------------------------------------

\* openingHours, closingHours: the two raw strings of the restaurant record.
\* sched: the clauses the Operating Hours text was written from, in order, each
\*        [days, hours] holding the day text and the hours text of the clause
\*        (empty for a record that is no schedule).
\* rendered: what the last run of OperatingHours computed, << >> before any:
\*        [format, evaluator, status, displayHours] and the wall clock it read,
\*        [day, time] (0 = Sunday, minutes since midnight).
VARIABLES openingHours, closingHours, sched, rendered,
          csvContent, restaurants, call, result

\* the text handed to parseCSV and the array it returned; the call of an
\* exported helper in flight and the value it returned
csvVars == <<csvContent, restaurants>>

callVars == <<call, result>>

hoursVars == <<openingHours, closingHours, sched, rendered>>

vars == <<openingHours, closingHours, sched, rendered, csvContent, restaurants, call, result>>

\* the longest schedule written, in clauses
MaxClauses == 2

\* the longest free text typed into one of the two fields, in characters
MaxRawLen == 5

Days == 0..6

\* wall-clock samples: 1 AM, 11:30 AM, 2 PM, 4 PM, 7 PM, 10 PM
Times == {60, 690, 840, 960, 1140, 1320}

\* the day texts a clause is written with
DayTexts == {"Mon-Thu", "Fri-Sun", "saturday", "Fri-Xyz", "Xyz", "Daily"}

\* the hours texts a clause is written with
HoursTexts == {"11:30AM-2:30PM & 6PM-10PM", "6PM-2AM"}

\* the HH:MM texts of a Simple record
SimpleTimes == {"9:00", "09:00", "11:30", "18:00", "22:00"}

\* the characters typed into a field, and the texts the other field holds meanwhile
RawChars == {"1", ":", " ", "a"}

FixedRaw == {"", "11:00", "9:30", "11:0"}

\* the instant the test suite freezes the clock at: Tuesday, 2 PM
TestDay == 2

TestTime == 840

Init ==
  /\ openingHours = ""
  /\ closingHours = ""
  /\ sched = << >>
  /\ rendered = << >>
  /\ csvContent = ""
  /\ restaurants = Absent
  /\ call = Absent
  /\ result = Absent

\* a record with a Simple pair of hours is loaded in place of the one not yet
\* rendered
LoadSimple(opening, closing) ==
  /\ rendered = << >>
  /\ openingHours' = opening
  /\ closingHours' = closing
  /\ sched' = << >>
  /\ rendered' = << >>
  /\ UNCHANGED <<csvVars, callVars>>

\* a record read from the CSV: the Operating Hours text, one more clause long
\* (a schedule writes each day text once), goes to openingHours and
\* closingHours is ''
AddClause(days, hours) ==
  /\ rendered = << >>
  /\ Len(sched) < MaxClauses
  /\ \A i \in DOMAIN sched : sched[i].days # days
  /\ openingHours' = (IF sched = << >> THEN "" ELSE openingHours \o "; ")
                        \o days \o ": " \o hours
  /\ closingHours' = ""
  /\ sched' = Append(sched, [days |-> days, hours |-> hours])
  /\ rendered' = << >>
  /\ UNCHANGED <<csvVars, callVars>>

\* one character more of free text in the opening field
TypeOpening(ch) ==
  /\ rendered = << >>
  /\ closingHours \in FixedRaw
  /\ Len(openingHours) < MaxRawLen
  /\ openingHours' = openingHours \o ch
  /\ rendered' = << >>
  /\ UNCHANGED <<closingHours, sched, csvVars, callVars>>

\* one character more of free text in the closing field
TypeClosing(ch) ==
  /\ rendered = << >>
  /\ openingHours \in FixedRaw
  /\ Len(closingHours) < MaxRawLen
  /\ closingHours' = closingHours \o ch
  /\ rendered' = << >>
  /\ UNCHANGED <<openingHours, sched, csvVars, callVars>>

\* OperatingHours renders the record once, reading the wall clock (day, time):
\* detectHoursFormat, getRestaurantStatus, formatHoursDisplay with the format
OperatingHours(day, time) ==
  /\ rendered = << >>
  /\ LET format == detectHoursFormat(openingHours, closingHours)
     IN rendered' =
          << [format       |-> format,
              evaluator    |-> Dispatch(openingHours, closingHours),
              status       |-> getRestaurantStatus(openingHours, closingHours, day, time),
              displayHours |-> formatHoursDisplay(openingHours, closingHours, <<format>>),
              day          |-> day,
              time         |-> time] >>
  /\ UNCHANGED <<openingHours, closingHours, sched, csvVars, callVars>>

Next ==
  \/ \E opening \in SimpleTimes, closing \in SimpleTimes : LoadSimple(opening, closing)
  \/ \E days \in DayTexts, hours \in HoursTexts : AddClause(days, hours)
  \/ \E day \in Days, time \in Times : OperatingHours(day, time)

Spec == Init /\ [][Next]_vars

\* Free text in the two fields, rendered at the test suite's frozen clock
InitDetect ==
  /\ openingHours \in FixedRaw
  /\ closingHours \in FixedRaw
  /\ sched = << >>
  /\ rendered = << >>
  /\ csvContent = ""
  /\ restaurants = Absent
  /\ call = Absent
  /\ result = Absent

NextDetect ==
  \/ \E ch \in RawChars : TypeOpening(ch)
  \/ \E ch \in RawChars : TypeClosing(ch)
  \/ OperatingHours(TestDay, TestTime)

SpecDetect == InitDetect /\ [][NextDetect]_vars

\* ------------------------------------------------------------------------
\* Calls of the exported helpers, one call per behaviour
\* ------------------------------------------------------------------------

\* the two-digit text of a number below 100
TwoDigit(n) == DigitChar(n \div 10) \o DigitChar(n % 10)

\* the 'HH:MM' texts of the 24-hour clock, each with the hour and minute it was
\* written from
ClockHours == 0..23

ClockMinutes == 0..59

ClockCalls ==
  {[fn |-> "convertTo12Hour", arg |-> TwoDigit(h) \o ":" \o TwoDigit(m),
    of |-> [hour |-> h, minute |-> m]] : h \in ClockHours, m \in ClockMinutes}

\* the highest price written in a price text
MaxPrice == 35

Prices == 0..MaxPrice

\* the price texts '$<min>-<max>', each with the two numbers it was written from
RangePriceCalls ==
  {[fn |-> "convertPriceRange", arg |-> "$" \o NatToString(lo) \o "-" \o NatToString(hi),
    of |-> [form |-> "range", min |-> lo, max |-> hi]] : lo \in Prices, hi \in Prices}

\* price texts that are no '$<min>-<max>' and hold none
PlainPriceTexts ==
  {"", "N/A", "Free", "$", "$10", "$-20", "10-20", "$ 10-20", "$10 - 20", "$5.50-12",
   "$10-", "$$", "10$-20"}

PlainPriceCalls ==
  {[fn |-> "convertPriceRange", arg |-> t,
    of |-> [form |-> "plain", min |-> 0, max |-> 0]] : t \in PlainPriceTexts}

\* price texts that are no '$<min>-<max>' but hold one, with the numbers of the
\* first one they hold
HoldingPriceCalls ==
  {[fn |-> "convertPriceRange", arg |-> "about $5-8", of |-> [form |-> "holds", min |-> 5, max |-> 8]],
   [fn |-> "convertPriceRange", arg |-> "$25-40 per person", of |-> [form |-> "holds", min |-> 25, max |-> 40]],
   [fn |-> "convertPriceRange", arg |-> "$$22-30", of |-> [form |-> "holds", min |-> 22, max |-> 30]],
   [fn |-> "convertPriceRange", arg |-> "$5-8 or $40-60", of |-> [form |-> "holds", min |-> 5, max |-> 8]],
   [fn |-> "convertPriceRange", arg |-> "$x $35-50", of |-> [form |-> "holds", min |-> 35, max |-> 50]]}

\* the time tokens of the AM/PM pattern: a one- or two-digit hour, a colon or
\* none, a two-digit minute or none, a blank or none, AM or PM in either case;
\* each with the hour, minute and period it was written from
TokenHours == 0..25

TokenHourTexts ==
  {[text |-> NatToString(h), hour |-> h] : h \in TokenHours}
    \cup {[text |-> TwoDigit(h), hour |-> h] : h \in 0..9}

TokenMinutes == {[text |-> "", minute |-> 0], [text |-> "00", minute |-> 0],
                 [text |-> "30", minute |-> 30], [text |-> "59", minute |-> 59],
                 [text |-> "75", minute |-> 75]}

TokenPeriods == {[text |-> "AM", pm |-> FALSE], [text |-> "am", pm |-> FALSE],
                 [text |-> "PM", pm |-> TRUE], [text |-> "pM", pm |-> TRUE]}

TokenCalls ==
  {[fn |-> "parseTimeToMinutes",
    arg |-> h.text \o colon \o m.text \o blank \o p.text,
    of |-> [hour |-> h.hour, minute |-> m.minute, pm |-> p.pm]] :
      h \in TokenHourTexts, colon \in {"", ":"}, m \in TokenMinutes,
      blank \in {"", " "}, p \in TokenPeriods}

\* the street part of an address, with the street-number key and the
\* street-name key of the table it holds ("" for none)
StreetParts ==
  {[text |-> "6815 Hillcroft St",  number |-> "6815 hillcroft",  generic |-> "hillcroft"],
   [text |-> "3601 HILLCROFT AVE", number |-> "3601 hillcroft",  generic |-> "hillcroft"],
   [text |-> "Hillcroft St",       number |-> "",                generic |-> "hillcroft"],
   [text |-> "516 Westheimer Rd",  number |-> "516 westheimer",  generic |-> "westheimer"],
   [text |-> "1834 Westheimer Rd", number |-> "1834 westheimer", generic |-> "westheimer"],
   [text |-> "8888 Westheimer Rd", number |-> "8888 westheimer", generic |-> "westheimer"],
   [text |-> "Westheimer Rd",      number |-> "",                generic |-> "westheimer"],
   [text |-> "2800 Kirby Dr",      number |-> "2800 kirby",      generic |-> "kirby"],
   [text |-> "4410 Richmond Ave",  number |-> "4410 richmond",   generic |-> "richmond"],
   [text |-> "1201 Fannin St",     number |-> "1201 fannin",     generic |-> "fannin"],
   [text |-> "9889 Bellaire Blvd", number |-> "9889 bellaire",   generic |-> "bellaire"],
   [text |-> "12427 Bissonnet St", number |-> "12427 bissonnet", generic |-> "bissonnet"],
   [text |-> "Unknown Street",     number |-> "",                generic |-> ""]}

\* the rest of an address, with the zip-code key of the table it holds
ZipParts ==
  {[text |-> "",                  zip |-> ""],
   [text |-> " Houston TX 77081", zip |-> "77081"],
   [text |-> " Houston TX 77098", zip |-> "77098"],
   [text |-> " Houston TX 77006", zip |-> "77006"],
   [text |-> " Houston TX 77002", zip |-> "77002"],
   [text |-> " Houston TX 99999", zip |-> ""]}

AddressCalls ==
  {[fn |-> "mockGeocodeHouston", arg |-> street.text \o rest.text,
    of |-> [number |-> street.number, generic |-> street.generic, zip |-> rest.zip]] :
      street \in StreetParts, rest \in ZipParts}

CallInputs ==
  ClockCalls \cup RangePriceCalls \cup PlainPriceCalls \cup HoldingPriceCalls
    \cup TokenCalls \cup AddressCalls

InitCalls ==
  /\ openingHours = ""
  /\ closingHours = ""
  /\ sched = << >>
  /\ rendered = << >>
  /\ csvContent = ""
  /\ restaurants = Absent
  /\ call \in {<<c>> : c \in CallInputs}
  /\ result = Absent

\* the call of convertTo12Hour returns
CallConvertTo12Hour ==
  /\ result = Absent
  /\ call[1].fn = "convertTo12Hour"
  /\ result' = <<convertTo12Hour(call[1].arg)>>
  /\ UNCHANGED <<hoursVars, csvVars, call>>

\* the call of convertPriceRange returns
CallConvertPriceRange ==
  /\ result = Absent
  /\ call[1].fn = "convertPriceRange"
  /\ result' = <<convertPriceRange(call[1].arg)>>
  /\ UNCHANGED <<hoursVars, csvVars, call>>

\* the call of parseTimeToMinutes returns
CallParseTimeToMinutes ==
  /\ result = Absent
  /\ call[1].fn = "parseTimeToMinutes"
  /\ result' = <<parseTimeToMinutes(call[1].arg)>>
  /\ UNCHANGED <<hoursVars, csvVars, call>>

\* the call of mockGeocodeHouston returns
CallMockGeocodeHouston ==
  /\ result = Absent
  /\ call[1].fn = "mockGeocodeHouston"
  /\ result' = <<mockGeocodeHouston(call[1].arg)>>
  /\ UNCHANGED <<hoursVars, csvVars, call>>

NextCalls ==
  \/ CallConvertTo12Hour
  \/ CallConvertPriceRange
  \/ CallParseTimeToMinutes
  \/ CallMockGeocodeHouston

SpecCalls == InitCalls /\ [][NextCalls]_vars

\* ------------------------------------------------------------------------
\* A CSV file written line by line, then parsed
\* ------------------------------------------------------------------------

\* csvContent: the text of the file so far; restaurants: what parseCSV
\* returned for it, << >> before the call.

MaxRows == 2

\* the header lines: the three columns the modelled fields are read from, in
\* two orders
HeaderLines ==
  {"Address,Operating Hours,Price Range", "Operating Hours,Price Range,Address"}

\* the cells a line is written from: the Operating Hours cell is a schedule,
\* a Daily shorthand, a bare HH:MM, a quoted schedule with a comma inside, a
\* schedule with a comma and no quotes (one cell too many), padded or empty
HoursCells ==
  {"Mon-Thu: 11AM-9PM; Fri-Sun: 11AM-10PM", "Daily: 11AM-10PM", "11:00", " 9:30 ",
   "\"Mon-Thu: 11AM-9PM, Fri: 5PM-10PM\"", "Mon: 11AM-2PM, 5PM-9PM", ""}
AddressCells == {"2800 Kirby Dr", "\"1 Main St, Houston TX 77002\""}
PriceCells == {"$15-25"}

\* the line of a row under a header: the cells in the order of its columns
LineOf(headers, address, hours, price) ==
  LET cell(header) == CASE header = "Address" -> address
                        [] header = "Operating Hours" -> hours
                        [] header = "Price Range" -> price
  IN join([k \in DOMAIN headers |-> cell(headers[k])], ",")

\* the lines written after the header
LinesWritten == Len(split(csvContent, "\n")) - 1

InitCsv ==
  /\ openingHours = ""
  /\ closingHours = ""
  /\ sched = << >>
  /\ rendered = << >>
  /\ csvContent \in HeaderLines
  /\ restaurants = Absent
  /\ call = Absent
  /\ result = Absent

\* a row is written under the header
WriteRow(address, hours, price) ==
  /\ restaurants = Absent
  /\ LinesWritten < MaxRows
  /\ csvContent' = csvContent \o "\n"
                     \o LineOf(parseCSVLine(split(csvContent, "\n")[1]), address, hours, price)
  /\ UNCHANGED <<hoursVars, callVars, restaurants>>

\* an empty line is written: a blank line between rows, or the newline that
\* ends the file
WriteBlankLine ==
  /\ restaurants = Absent
  /\ LinesWritten < MaxRows
  /\ csvContent' = csvContent \o "\n"
  /\ UNCHANGED <<hoursVars, callVars, restaurants>>

\* parseCSV(csvContent)
ParseCSV ==
  /\ restaurants = Absent
  /\ restaurants' = <<parseCSV(csvContent)>>
  /\ UNCHANGED <<hoursVars, callVars, csvContent>>

NextCsv ==
  \/ \E address \in AddressCells, hours \in HoursCells, price \in PriceCells :
       WriteRow(address, hours, price)
  \/ WriteBlankLine
  \/ ParseCSV

SpecCsv == InitCsv /\ [][NextCsv]_vars

\* ------------------------------------------------------------------------
\* What the texts of a schedule mean (spec.md, sections 3 and 4.2)
\* ------------------------------------------------------------------------

Rendered == rendered # << >>

R == rendered[1]

\* the weekdays from start forward to end, around the week if need be
CyclicRange(start, end) == {(start + k) % 7 : k \in 0..((end - start + 7) % 7)}

Resolvable(days) == days \in {"Mon-Thu", "Fri-Sun", "saturday"}

DayBounds(days) ==
  CASE days = "Mon-Thu"  -> [start |-> 1, end |-> 4]
    [] days = "Fri-Sun"  -> [start |-> 5, end |-> 0]
    [] days = "saturday" -> [start |-> 6, end |-> 6]

\* the weekdays a day text denotes: none when a name in it is no day name
DaysDenoted(days) ==
  IF Resolvable(days)
  THEN CyclicRange(DayBounds(days).start, DayBounds(days).end)
  ELSE {}

\* the intervals an hours text denotes, in minutes since midnight
IntervalsOf(hours) ==
  CASE hours = "11:30AM-2:30PM & 6PM-10PM" ->
         <<[open |-> 690, close |-> 870], [open |-> 1080, close |-> 1320]>>
    [] hours = "6PM-2AM" -> <<[open |-> 1080, close |-> 120]>>

\* the first two time tokens of an hours text
FirstTokens(hours) ==
  CASE hours = "11:30AM-2:30PM & 6PM-10PM" -> [open |-> "11:30AM", close |-> "2:30PM"]
    [] hours = "6PM-2AM" -> [open |-> "6PM", close |-> "2AM"]

\* some interval of the hours text contains the time, bounds included
SomeIntervalContains(hours, time) ==
  \E j \in DOMAIN IntervalsOf(hours) :
    IntervalsOf(hours)[j].open <= time /\ time <= IntervalsOf(hours)[j].close

\* the weekdays a day text is matched on by the evaluator: a range whose end is
\* no day name is matched from its start to Saturday
DaysMatched(days) == IF days = "Fri-Xyz" THEN {5, 6} ELSE DaysDenoted(days)

\* minutes since midnight and 12-hour text of the HH:MM texts of SimpleTimes
MinutesOf(hhmm) ==
  CASE hhmm \in {"9:00", "09:00"} -> 540
    [] hhmm = "11:30" -> 690
    [] hhmm = "18:00" -> 1080
    [] hhmm = "22:00" -> 1320

TwelveHourOf(hhmm) ==
  CASE hhmm \in {"9:00", "09:00"} -> "9:00 AM"
    [] hhmm = "11:30" -> "11:30 AM"
    [] hhmm = "18:00" -> "6:00 PM"
    [] hhmm = "22:00" -> "10:00 PM"

\* a rendered Simple pair
SimpleRendered ==
  Rendered /\ R.evaluator = "simple" /\ openingHours \in SimpleTimes /\ closingHours \in SimpleTimes

\* the strings made of one or two digits, a colon and two digits
SimpleShapes ==
  {h \o ":" \o m1 \o m2 : h \in Digits \cup {a \o b : a \in Digits, b \in Digits},
                          m1 \in Digits, m2 \in Digits}

\* the schedule holds a "Daily:" clause
HasDaily(s) == \E i \in DOMAIN s : s[i].days = "Daily"

\* a rendered schedule evaluated clause by clause
DayQualified == Rendered /\ sched # << >> /\ ~HasDaily(sched)

\* ------------------------------------------------------------------------
\* Claims
\* ------------------------------------------------------------------------

\* C1: for a day-qualified descriptor (no 'daily:'), isOpen is true if and only
\* if some clause, at any position, has a day range that contains today and an
\* interval [open, close] (inclusive) that contains the current time; a clause
\* whose day name is not resolvable contains no day.
C1_OpenIffSomeClauseMatches ==
  DayQualified =>
    (R.status.isOpen <=>
       \E i \in DOMAIN sched :
         /\ R.day \in DaysDenoted(sched[i].days)
         /\ SomeIntervalContains(sched[i].hours, R.time))

\* C2: a day range contains exactly the weekdays from start forward to end,
\* around the week when start > end: on the day of every rendering, isDayInRange
\* agrees for every start and end in 0..6, 'Fri-Sun: 11AM-10PM' at 7 PM is open
\* on Friday, Saturday and Sunday and closed on every other day, and a
\* one-clause schedule of a resolvable range, rendered inside one of its
\* intervals, is open exactly on the days of the range.
C2_DayRangeWraps ==
  Rendered =>
    /\ \A start \in Days, end \in Days :
         isDayInRange(Num(R.day), Num(start), Num(end)) <=>
           IF start > end THEN R.day >= start \/ R.day <= end
                          ELSE start <= R.day /\ R.day <= end
    /\ getRestaurantStatus("Fri-Sun: 11AM-10PM", "", R.day, 1140).isOpen
         <=> R.day \in {5, 6, 0}
    /\ (/\ DayQualified
        /\ Len(sched) = 1
        /\ Resolvable(sched[1].days)
        /\ SomeIntervalContains(sched[1].hours, R.time))
       => (R.status.isOpen <=>
             R.day \in CyclicRange(DayBounds(sched[1].days).start,
                                   DayBounds(sched[1].days).end))

\* C2 witness: 'Fri-Sun: ...' rendered on a Sunday at 7 PM is open
C2_Witness ==
  /\ DayQualified
  /\ Len(sched) = 1
  /\ sched[1].days = "Fri-Sun"
  /\ R.day = 0
  /\ R.time = 1140
  /\ R.status.isOpen

\* C3: a clause whose day part holds a day name that is not resolvable (also a
\* range with only one resolvable end) matches no day: a schedule made of such
\* clauses only is never open, whatever the day and the time.
C3_UnresolvableNeverOpen ==
  (DayQualified /\ \A i \in DOMAIN sched : ~Resolvable(sched[i].days))
    => ~R.status.isOpen

\* C4 as claimed: a Complex descriptor with no clause/day/interval combination
\* that contains the current instant, a 'Daily:' descriptor outside its window
\* included, is closed with nextChange absent (a clause taken to match on the
\* days the evaluator matches it on).
C4_ClosedWithoutNextChange ==
  (/\ Rendered
   /\ R.evaluator = "complex"
   /\ IF HasDaily(sched)
      THEN \/ IntervalsOf(sched[1].hours)[1].open > R.time
           \/ IntervalsOf(sched[1].hours)[1].close < R.time
      ELSE ~\E i \in DOMAIN sched :
              /\ R.day \in DaysMatched(sched[i].days)
              /\ SomeIntervalContains(sched[i].hours, R.time))
    => (~R.status.isOpen /\ R.status.nextChange = Absent)

\* C4 amended: a descriptor evaluated clause by clause, with no clause that is
\* matched today and has an interval containing the current time, is closed
\* with nextChange absent; a 'Daily:' descriptor outside the window of its
\* first two tokens is closed with nextChange 'Opens at ' + the first token.
C4_ClosedNextChange ==
  (Rendered /\ R.evaluator = "complex") =>
    IF HasDaily(sched)
    THEN (IntervalsOf(sched[1].hours)[1].open > R.time
          \/ IntervalsOf(sched[1].hours)[1].close < R.time)
         => /\ ~R.status.isOpen
            /\ R.status.nextChange = <<"Opens at " \o FirstTokens(sched[1].hours).open>>
    ELSE (~\E i \in DOMAIN sched :
             /\ R.day \in DaysMatched(sched[i].days)
             /\ SomeIntervalContains(sched[i].hours, R.time))
         => (~R.status.isOpen /\ R.status.nextChange = Absent)

\* C4 witness: 'Mon-Thu: 11:30AM-2:30PM & 6PM-10PM' on a Tuesday at 4 PM, between
\* the two intervals, is closed with no nextChange
C4_Witness ==
  /\ DayQualified
  /\ sched[1].days = "Mon-Thu"
  /\ sched[1].hours = "11:30AM-2:30PM & 6PM-10PM"
  /\ Len(sched) = 1
  /\ R.day = 2
  /\ R.time = 960
  /\ ~R.status.isOpen
  /\ R.status.nextChange = Absent

\* C5: a Simple pair is open exactly when opening <= now <= closing as times of
\* day, both bounds included.
C5_SimpleOpenWithinBounds ==
  SimpleRendered =>
    (R.status.isOpen <=>
       MinutesOf(openingHours) <= R.time /\ R.time <= MinutesOf(closingHours))

C7_DailyFirstTwoTokens ==
  (Rendered /\ HasDaily(sched)) =>
    /\ R.status.isOpen <=>
         /\ IntervalsOf(sched[1].hours)[1].open <= R.time
         /\ R.time <= IntervalsOf(sched[1].hours)[1].close
    /\ R.status.isOpen
         => R.status.nextChange = <<"Closes at " \o FirstTokens(sched[1].hours).close>>

\* C7 witness: 'Mon-Thu: ...; Daily: ...' is open on a Saturday inside the first
\* clause's first interval
C7_Witness ==
  /\ Rendered
  /\ Len(sched) = 2
  /\ sched[1].days = "Mon-Thu"
  /\ sched[2].days = "Daily"
  /\ R.day = 6
  /\ R.status.isOpen

\* C8: every status returned has statusText 'Open Now' and statusColor
\* 'text-green-600' when isOpen, 'Closed' and 'text-red-600' when not.
C8_TextAndColorFollowIsOpen ==
  Rendered =>
    /\ R.status.statusText = (IF R.status.isOpen THEN "Open Now" ELSE "Closed")
    /\ R.status.statusColor =
         (IF R.status.isOpen THEN "text-green-600" ELSE "text-red-600")

\* C8 witness: a 'Daily:' descriptor rendered outside its window
C8_Witness ==
  /\ Rendered
  /\ HasDaily(sched)
  /\ ~R.status.isOpen
  /\ R.status.statusText = "Closed"

\* C9: detectHoursFormat is Simple if and only if both strings are one or two
\* digits, a colon and two digits, with nothing else; getRestaurantStatus uses
\* the Simple evaluator exactly then.
C9_SimpleIffBothStrict ==
  LET both == openingHours \in SimpleShapes /\ closingHours \in SimpleShapes
  IN /\ detectHoursFormat(openingHours, closingHours) = "simple" <=> both
     /\ Rendered =>
          /\ R.format = "simple" <=> both
          /\ R.evaluator = "simple" <=> both
          /\ R.status = IF both
                        THEN parseSimpleHours(openingHours, closingHours, R.time)
                        ELSE parseComplexHours(openingHours, R.day, R.time)

\* C9 witness: the typed '1:11' with closing '11:00' is rendered as Simple
C9_Witness ==
  /\ Rendered
  /\ openingHours = "1:11"
  /\ closingHours = "11:00"
  /\ R.evaluator = "simple"

\* C10: the display string computed with the detected format as the override is
\* the one computed with no override, and for Complex it is the raw opening
\* string.
C10_OverrideWithDetectedFormat ==
  Rendered =>
    /\ R.displayHours = formatHoursDisplay(openingHours, closingHours, Absent)
    /\ R.format = "complex" => R.displayHours = openingHours

\* C10 witness: a Simple pair displayed in 12-hour form
C10_Witness ==
  /\ Rendered
  /\ R.format = "simple"
  /\ openingHours = "1:11"
  /\ closingHours = "11:00"
  /\ R.displayHours = "1:11 AM - 11:00 AM"

\* the call of fn has returned
Returned(fn) == result # Absent /\ call[1].fn = fn

\* the display hours of the 12-hour clock, by hour modulo 12
DisplayHours == <<"12", "1", "2", "3", "4", "5", "6", "7", "8", "9", "10", "11">>

\* C11: for every 'HH:MM' with hour h in 0..23, convertTo12Hour returns the
\* display hour (h mod 12, 12 for 0), ':', the minutes unchanged, then ' AM'
\* when h < 12 and ' PM' otherwise; '00:00' gives '12:00 AM' and '12:00' gives
\* '12:00 PM'.
C11_TwelveHourDisplay ==
  Returned("convertTo12Hour") =>
    LET h == call[1].of.hour
        m == call[1].of.minute
    IN /\ result[1] = DisplayHours[(h % 12) + 1] \o ":" \o TwoDigit(m)
                        \o (IF h < 12 THEN " AM" ELSE " PM")
       /\ call[1].arg = "00:00" => result[1] = "12:00 AM"
       /\ call[1].arg = "12:00" => result[1] = "12:00 PM"

\* C11 witness: '12:00' has returned '12:00 PM'
C11_Witness ==
  /\ Returned("convertTo12Hour")
  /\ call[1].arg = "12:00"
  /\ result[1] = "12:00 PM"

\* the price symbol of an average of (lo + hi) / 2
Bucket(lo, hi) ==
  IF lo + hi < 20 THEN "$"
  ELSE IF lo + hi <= 40 THEN "$$"
  ELSE IF lo + hi <= 60 THEN "$$$"
  ELSE "$$$$"

\* C12 as claimed: a price text '$<min>-<max>' gets '$' for an average below 10,
\* '$$' from 10 to 20, '$$$' above 20 up to 30 and '$$$$' above 30; every
\* other text gets '$$'.
C12_PriceBuckets ==
  Returned("convertPriceRange") =>
    result[1] = IF call[1].of.form = "range"
                THEN Bucket(call[1].of.min, call[1].of.max)
                ELSE "$$"

\* C12 amended: a price text '$<min>-<max>' gets the symbol of its average; a
\* text that holds no '$<digits>-<digits>' gets '$$'; any other text gets the
\* symbol of the first '$<digits>-<digits>' it holds.
C12_PriceBucketsOfFirstRange ==
  Returned("convertPriceRange") =>
    result[1] = IF call[1].of.form = "plain"
                THEN "$$"
                ELSE Bucket(call[1].of.min, call[1].of.max)

\* C12 witness: '$20-21', of average 20.5, has returned '$$$'
C12_Witness ==
  /\ Returned("convertPriceRange")
  /\ call[1].arg = "$20-21"
  /\ result[1] = "$$$"

\* minutes since midnight of an 'H:MM' or 'HH:MM' text, read as numbers
ClockMinutesOf(hhmm) ==
  LET colon == IndexFrom(hhmm, ":", 1)
  IN DigitsValue(Sub(hhmm, 1, colon - 1), 0) * 60
       + DigitsValue(Sub(hhmm, colon + 1, Len(hhmm)), 0)

\* C13: for every pair classified Simple and every current time, the string
\* comparisons of the Simple evaluator give the verdict that comparing opening,
\* now and closing as minutes since midnight gives, one-digit hours such as
\* '9:00' included.
C13_LexicographicIsNumeric ==
  (Rendered /\ R.format = "simple") =>
    LET now == CurrentTimeText(R.time)
    IN (StrGe(now, openingHours) /\ StrLe(now, closingHours)) <=>
         /\ ClockMinutesOf(openingHours) <= R.time
         /\ R.time <= ClockMinutesOf(closingHours)

\* the hour of the 24-hour clock a token's hour and period stand for
TokenHour24(hour, pm) ==
  IF pm /\ hour # 12 THEN hour + 12
  ELSE IF ~pm /\ hour = 12 THEN 0
  ELSE hour

CoordsOf(key) ==
  locationMap[CHOOSE i \in DOMAIN locationMap : locationMap[i].key = key].coords

\* the place of a key in the order the loop visits the table in
VisitedAt(key) == CHOOSE i \in DOMAIN LocationEntries : LocationEntries[i].key = key

\* the keys of the table an address was written with
KeysHeld(of) == {of.number, of.generic, of.zip} \ {""}

\* C17: mockGeocodeHouston returns the coordinates of the first key, in the
\* order the table is visited, that the lower-cased address contains, the
\* city-center default when it contains none; and an address that contains a
\* street-number key gets that key's coordinates, not those of a street-name
\* key or a zip-code key it also contains.
C17_StreetNumberKeysFirst ==
  Returned("mockGeocodeHouston") =>
    LET held == KeysHeld(call[1].of)
    IN /\ result[1] =
            IF held = {} THEN DefaultCoords
            ELSE CoordsOf(CHOOSE k \in held : \A other \in held : VisitedAt(k) <= VisitedAt(other))
       /\ call[1].of.number # "" => result[1] = CoordsOf(call[1].of.number)

\* the records parseCSV returned
Records == IF restaurants = Absent THEN {}
           ELSE {restaurants[1][k] : k \in DOMAIN restaurants[1]}

\* C15: for every record produced by parseCSV, the stored hoursFormat tag
\* equals detectHoursFormat(openingHours, closingHours) of that same record,
\* whatever text the Operating Hours column holds.
C15_TagIsDetectedFormat ==
  \A record \in Records :
     record.hoursFormat = detectHoursFormat(record.openingHours, record.closingHours)

\* a file of two records parsed, one of them with a bare HH:MM in the
\* Operating Hours column
C15_Witness ==
  /\ restaurants # Absent
  /\ Len(restaurants[1]) = 2
  /\ \E record \in Records :
        /\ simpleTimePattern(record.openingHours)
        /\ record.hoursFormat = "complex"

\* the intervals of an hours text that can account for an open status: those
\* whose close is not before their open and that contain the time
ProperIntervalContains(hours, time) ==
  \E j \in DOMAIN IntervalsOf(hours) :
    /\ IntervalsOf(hours)[j].open <= IntervalsOf(hours)[j].close
    /\ IntervalsOf(hours)[j].open <= time
    /\ time <= IntervalsOf(hours)[j].close

\* every interval of the hours text closes before it opens
AllOvernight(hours) ==
  \A j \in DOMAIN IntervalsOf(hours) :
    IntervalsOf(hours)[j].close < IntervalsOf(hours)[j].open

\* C16: an interval whose parsed close is strictly less than its parsed open
\* (e.g. '6PM-2AM') contains no current time on any day and never makes the
\* status open, in the day-qualified path and in the Daily path: an open status
\* always comes from an interval that does not wrap, and a schedule of wrapping
\* intervals only is closed at every time, the evening and the small hours
\* included.
C16_NoOvernightWrap ==
  (Rendered /\ sched # << >>) =>
    /\ R.status.isOpen =>
         IF HasDaily(sched)
         THEN /\ IntervalsOf(sched[1].hours)[1].open <= IntervalsOf(sched[1].hours)[1].close
              /\ IntervalsOf(sched[1].hours)[1].open <= R.time
              /\ R.time <= IntervalsOf(sched[1].hours)[1].close
         ELSE \E i \in DOMAIN sched : ProperIntervalContains(sched[i].hours, R.time)
    /\ (\A i \in DOMAIN sched : AllOvernight(sched[i].hours)) => ~R.status.isOpen

\* C16 witness: 'Fri-Sun: 6PM-2AM' on a Saturday at 7 PM is closed
C16_Witness ==
  /\ DayQualified
  /\ Len(sched) = 1
  /\ sched[1].days = "Fri-Sun"
  /\ sched[1].hours = "6PM-2AM"
  /\ R.day = 6
  /\ R.time = 1140
  /\ ~R.status.isOpen

====
